---- MODULE Spec2Model ----
(***************************************************************************)
(* Mock CRM API server (mock-crm/mock-crm-api.py): the in-memory contact   *)
(* store, the id counter, the synthetic-contact generator and the request  *)
(* handlers (list, get, create, simulate, health, webhook echo).           *)
(*                                                                         *)
(* Time is an integer clock whose unit is one day (the unit of the '-30d'  *)
(* window of createdAt).  The two pseudo-random generators of the program  *)
(* (random, Faker) are one generator state `rng`: every draw reads it and  *)
(* advances it, and the seed is chosen at startup.  An ISO-8601 string is  *)
(* a record [form, t]: its shape (naive, with a UTC offset, with a         *)
(* trailing Z, not a date, empty, absent) and the instant it denotes.      *)
(*                                                                         *)
(* Spec serves one request at a time: a handler is one step, it leaves its *)
(* response in `resp`, and the next request is taken once the client has   *)
(* received it.  SpecThreads serves create, simulate and list requests in  *)
(* two threads whose accesses to the store and the counter interleave.     *)
(* SpecPaging lets a client page through the listing of a store that no    *)
(* longer changes.                                                         *)
(***************************************************************************)
EXTENDS Integers, Sequences, FiniteSets, TLC

VARIABLES
    contacts_db,      \* the store: a sequence of contacts (line 18)
    contact_counter,  \* the id counter (line 19)
    rng,              \* state of the pseudo-random generators
    now,              \* the wall clock, in days
    posts,            \* POST /api/contacts[/simulate] requests handled so far
    resp,             \* the response in flight to the client, or NoResponse
    threads,          \* concurrent request handlers: position and locals
    client            \* a client paging through GET /api/contacts, or NoClient

vars == <<contacts_db, contact_counter, rng, now, posts, resp, threads, client>>

---------------------------------------------------------------------------
(* Bounds of the model *)

MaxPosts == 2      \* create/simulate requests per run
MaxClock == 1      \* the clock runs from 0 to MaxClock

(* Seeds of the pseudo-random generators explored at startup *)
Seeds == {11}

---------------------------------------------------------------------------
(* Program constants *)

CounterStart == 1000
SeedContacts == 50
CreatedWindow == 30
MinTags == 1
MaxTags == 3
MinLeadScore == 10
MaxLeadScore == 100
DefaultLimit == 20
MaxLimit == 100
DefaultOffset == 0
DefaultCount == 5
MaxSimulate == 20

phone_formats == <<"+33#########", "faker.phone_number", "0#########",
                   "0#.##.##.##.##", "0# ## ## ## ##">>

companies == <<"TechCorp", "DataInc", "InnovateSAS", "DigitalPro", "CloudSystems",
               "AI Solutions", "WebDev Studio", "Analytics Plus", "StartupLab",
               "Enterprise Solutions", "Digital Agency", "Tech Consulting">>

job_titles == <<"Developpeur Full Stack", "Chef de Projet", "Directeur Marketing",
                "Analyste de Donnees", "Consultant IT", "Responsable Commercial",
                "Product Owner", "UX Designer", "DevOps Engineer", "Data Scientist">>

tag_options == <<"prospect", "client", "lead", "enterprise", "startup", "premium">>

(* What Faker('fr_FR') draws from: first names, last names, addresses, texts *)
FakerFirstNames == <<"Camille", "Louis", "Manon">>
FakerLastNames == <<"Martin", "Bernard">>
FakerEmails == <<"camille@example.org", "louis@example.net">>
FakerTexts == <<"Lorem ipsum.", "Dolor sit amet.">>

---------------------------------------------------------------------------
(* Python built-ins used by the handlers *)

Min(a, b) == IF a < b THEN a ELSE b
Max(a, b) == IF a > b THEN a ELSE b

\* range(n): n iterations, none when n <= 0
RangeLen(n) == Max(n, 0)

\* s[lo:hi] on a list of length Len(s), the indices as Python normalises them
PyIndex(i, n) == IF i < 0 THEN Max(i + n, 0) ELSE Min(i, n)
PySlice(s, lo, hi) ==
    LET n == Len(s)
        a == PyIndex(lo, n)
        b == PyIndex(hi, n)
    IN  IF a >= b THEN <<>> ELSE SubSeq(s, a + 1, b)

\* str.upper() on the last names Faker draws
Upper(s) ==
    CASE s = "Martin" -> "MARTIN"
      [] s = "Bernard" -> "BERNARD"
      [] OTHER -> s

---------------------------------------------------------------------------
(* ISO-8601 strings and datetime values *)

IsoString(form, t) == [form |-> form, t |-> t]
AbsentArg == IsoString("absent", 0)
EmptyString == IsoString("empty", 0)
NotADate == IsoString("garbage", 0)

\* datetime.isoformat() of a naive datetime
isoformat(t) == IsoString("naive", t)

\* since.replace('Z', '+00:00')
ReplaceZ(s) == IF s.form = "zulu" THEN IsoString("offset", s.t) ELSE s

\* datetime.fromisoformat(s): a naive or an aware datetime, or ValueError
fromisoformat(s) ==
    CASE s.form = "naive" -> [exc |-> "none", aware |-> FALSE, t |-> s.t]
      [] s.form = "offset" -> [exc |-> "none", aware |-> TRUE, t |-> s.t]
      [] OTHER -> [exc |-> "ValueError"]

\* a > b on datetimes raises TypeError when one is naive and the other aware
Comparable(a, b) == a.aware = b.aware

\* truthiness of a query-string value: None and "" are falsy
TruthyString(s) == s.form \notin {"absent", "empty"}

---------------------------------------------------------------------------
(* Request values *)

\* request.args.get(name, default) followed by int(): <<>> is a missing
\* parameter, <<v>> the integer v
ArgOr(arg, default) == IF arg = <<>> THEN default ELSE arg[1]

\* request.json: JSON null (or no body), or an object with its items
NullBody == [kind |-> "null", items |-> <<>>]
JsonObject(items) == [kind |-> "object", items |-> items]

\* truthiness of request.json: None and {} are falsy
TruthyBody(data) == data.kind = "object" /\ DOMAIN data.items # {}

\* dict.update(other) on records
Update(d, other) ==
    [k \in DOMAIN d \cup DOMAIN other |-> IF k \in DOMAIN other THEN other[k] ELSE d[k]]

\* {k: v for k, v in data.items() if k != 'id'}
WithoutId(items) == [k \in DOMAIN items \ {"id"} |-> items[k]]

---------------------------------------------------------------------------
(* The pseudo-random generators *)

\* the generator's state n draws after state r: a full-period additive step
Advance(r, n) == (r + 37 * n) % 64

NextRng(r) == Advance(r, 1)

\* the number a draw yields in state r
Bits(r) == (r \div 4) + 16 * (r % 4)

\* random.choice(seq)
Choice(seq, r) == seq[1 + (Bits(r) % Len(seq))]

\* random.randint(a, b): a <= result <= b
randint(a, b, r) == a + (Bits(r) % (b - a + 1))

\* random.sample(population, k): k picks without replacement; the picked slot
\* is refilled with the last element of the shrinking pool
RECURSIVE sample(_, _, _)
sample(pool, k, r) ==
    IF k = 0 THEN <<>>
    ELSE LET n == Len(pool)
             j == 1 + (Bits(r) % n)
             rest == [i \in 1..(n - 1) |-> IF i = j THEN pool[n] ELSE pool[i]]
         IN  <<pool[j]>> \o sample(rest, k - 1, NextRng(r))

---------------------------------------------------------------------------
(* generate_mock_contact *)

\* f"mock_crm_{contact_counter}"
ContactId(counter) == "mock_crm_" \o ToString(counter)

\* lines 26-68: the contact built from the counter value read at line 53, the
\* generator state r and the clock; rng is the generator state afterwards
BuildContact(counter, r, clock) ==
    LET k == randint(MinTags, MaxTags, Advance(r, 6))
        rc == Advance(r, 7 + k)
    IN  [contact |->
            [id |-> ContactId(counter),
             firstName |-> Choice(FakerFirstNames, r),
             lastName |-> Upper(Choice(FakerLastNames, Advance(r, 1))),
             email |-> Choice(FakerEmails, Advance(r, 2)),
             phone |-> Choice(phone_formats, Advance(r, 3)),
             company |-> Choice(companies, Advance(r, 4)),
             jobTitle |-> Choice(job_titles, Advance(r, 5)),
             tags |-> sample(tag_options, k, Advance(r, 7)),
             createdAt |-> isoformat(clock - randint(0, CreatedWindow, rc)),
             lastModified |-> isoformat(clock),
             source |-> "website_form",
             leadScore |-> randint(MinLeadScore, MaxLeadScore, Advance(rc, 1)),
             notes |-> Choice(FakerTexts, Advance(rc, 2))],
         rng |-> Advance(rc, 3)]

\* faulty variant: the global statement forgotten, so that the increment stays
\* local and the id is built from the counter as it was
generate_without_increment(counter, r, clock) ==
    LET b == BuildContact(counter, r, clock)
    IN  [contact |-> b.contact, counter |-> counter, rng |-> b.rng]

\* faulty variant: the id is built before the counter is advanced
generate_id_before_increment(counter, r, clock) ==
    LET b == BuildContact(counter, r, clock)
    IN  [contact |-> b.contact, counter |-> counter + 1, rng |-> b.rng]

\* lines 21-68 run without interruption: the counter advanced, the contact
\* built from the advanced counter
generate_mock_contact(counter, r, clock) ==
    LET b == BuildContact(counter + 1, r, clock)
    IN  [contact |-> b.contact, counter |-> counter + 1, rng |-> b.rng]

\* what one call of generate_mock_contact() leaves behind: the counter and
\* the generator state
GenState == [counter : Int, rng : 0..63, clock : Int]

CallOnce[st \in GenState] ==
    LET g == generate_mock_contact(st.counter, st.rng, st.clock)
    IN  [counter |-> g.counter, rng |-> g.rng, clock |-> st.clock]

\* the counter and the generator state after n calls, one after the other
AfterCalls[n \in Nat, st \in GenState] ==
    IF n = 0 THEN st ELSE CallOnce[AfterCalls[n - 1, st]]

\* n times: contacts_db.append(generate_mock_contact()); new holds the
\* contacts appended, in order (lines 71-72 and 147-150)
GenerateAndAppend(n, st, clock) ==
    LET st0 == [counter |-> st.counter, rng |-> st.rng, clock |-> clock]
        new == [i \in 1..n |->
                   LET before == AfterCalls[i - 1, st0]
                   IN  generate_mock_contact(before.counter, before.rng, clock).contact]
        after == AfterCalls[n, st0]
    IN  [db |-> st.db \o new,
         counter |-> after.counter,
         rng |-> after.rng,
         new |-> st.new \o new]

\* faulty variant: the seeding loop runs one time too few
BootstrapOneShort(seed, clock) ==
    GenerateAndAppend(SeedContacts - 1,
        [db |-> <<>>, counter |-> CounterStart, rng |-> seed, new |-> <<>>], clock)

\* module load: the empty store, the counter at 1000, then the seeding loop
Bootstrap(seed, clock) ==
    GenerateAndAppend(SeedContacts,
        [db |-> <<>>, counter |-> CounterStart, rng |-> seed, new |-> <<>>], clock)

---------------------------------------------------------------------------
(* State *)

NoResponse == [op |-> "none"]
NoThreads == <<>>
NoClient == [state |-> "none"]

Init ==
    \E seed \in Seeds :
        LET b == Bootstrap(seed, 0)
        IN  /\ contacts_db = b.db
            /\ contact_counter = b.counter
            /\ rng = b.rng
            /\ now = 0
            /\ posts = 0
            /\ resp = NoResponse
            /\ threads = NoThreads
            /\ client = NoClient

Idle == resp = NoResponse

\* the clock advances between two requests
Tick ==
    /\ Idle
    /\ now < MaxClock
    /\ now' = now + 1
    /\ UNCHANGED <<contacts_db, contact_counter, rng, posts, resp, threads, client>>

\* the client receives the response in flight
Deliver ==
    /\ ~Idle
    /\ resp' = NoResponse
    /\ UNCHANGED <<contacts_db, contact_counter, rng, now, posts, threads, client>>

---------------------------------------------------------------------------
(* POST /api/contacts *)

\* faulty variant: the payload laid over the contact with its id key
OverlayWithId(contact, data) ==
    IF TruthyBody(data) THEN Update(contact, data.items) ELSE contact

\* lines 132-134: the generated contact with the payload laid over it
Overlay(contact, data) ==
    IF TruthyBody(data) THEN Update(contact, WithoutId(data.items)) ELSE contact

\* faulty variant: the contact is stored as generated and the payload is
\* laid over the copy that is returned
create_stores_generated(data) ==
    /\ Idle
    /\ posts < MaxPosts
    /\ LET g == generate_mock_contact(contact_counter, rng, now)
       IN  /\ contacts_db' = Append(contacts_db, g.contact)
           /\ contact_counter' = g.counter
           /\ rng' = g.rng
           /\ resp' = [op |-> "create", data |-> data, status |-> 201,
                       body |-> Overlay(g.contact, data)]
    /\ posts' = posts + 1
    /\ UNCHANGED <<now, threads, client>>

\* lines 126-138
create_contact(data) ==
    /\ Idle
    /\ posts < MaxPosts
    /\ LET g == generate_mock_contact(contact_counter, rng, now)
           contact == Overlay(g.contact, data)
       IN  /\ contacts_db' = Append(contacts_db, contact)
           /\ contact_counter' = g.counter
           /\ rng' = g.rng
           /\ resp' = [op |-> "create", data |-> data, status |-> 201, body |-> contact]
    /\ posts' = posts + 1
    /\ UNCHANGED <<now, threads, client>>

---------------------------------------------------------------------------
(* POST /api/contacts/simulate *)

\* faulty variant: the cap of 20 forgotten
SimulateCountUncapped(count) == RangeLen(ArgOr(count, DefaultCount))

\* min(count, 20) iterations of range()
SimulateCount(count) == RangeLen(Min(ArgOr(count, DefaultCount), MaxSimulate))

simulate_new_contacts(count) ==
    /\ Idle
    /\ posts < MaxPosts
    /\ LET st == GenerateAndAppend(SimulateCount(count),
                     [db |-> contacts_db, counter |-> contact_counter,
                      rng |-> rng, new |-> <<>>], now)
       IN  /\ contacts_db' = st.db
           /\ contact_counter' = st.counter
           /\ rng' = st.rng
           /\ resp' = [op |-> "simulate", count |-> count, status |-> 200,
                       body |-> [message |-> "Created " \o ToString(Len(st.new))
                                                \o " new contacts",
                                 contacts |-> st.new]]
    /\ posts' = posts + 1
    /\ UNCHANGED <<now, threads, client>>

---------------------------------------------------------------------------
(* GET /api/contacts *)

\* what evaluating the condition of the list comprehension does for
\* contact c: fromisoformat raises ValueError on a lastModified that is no
\* ISO string, the comparison raises TypeError on a naive and an aware datetime
ConditionRaises(c, since_dt) ==
    LET lm == fromisoformat(c.lastModified)
    IN  IF lm.exc # "none" THEN "ValueError"
        ELSE IF ~Comparable(lm, since_dt) THEN "TypeError"
        ELSE "none"

\* lines 92-95: the list comprehension over the store; the first contact
\* whose condition raises ends it with that exception
FilterSince(db, since_dt) ==
    LET raising == {i \in 1..Len(db) : ConditionRaises(db[i], since_dt) # "none"}
        ModifiedAfter(c) == fromisoformat(c.lastModified).t > since_dt.t
    IN  IF raising # {}
        THEN [exc |-> ConditionRaises(
                          db[CHOOSE i \in raising : \A j \in raising : i <= j], since_dt)]
        ELSE [exc |-> "none", items |-> SelectSeq(db, ModifiedAfter)]

\* faulty variant: a since that does not parse is ignored, not reported
FilteredContactsLenient(db, since) ==
    IF TruthyString(since)
    THEN LET since_dt == fromisoformat(ReplaceZ(since))
         IN  IF since_dt.exc # "none" THEN [exc |-> "none", items |-> db]
             ELSE FilterSince(db, since_dt)
    ELSE [exc |-> "none", items |-> db]

\* lines 88-97: the filtered contacts, or the exception raised in the try block
FilteredContacts(db, since) ==
    IF TruthyString(since)
    THEN LET since_dt == fromisoformat(ReplaceZ(since))
         IN  IF since_dt.exc # "none" THEN [exc |-> "ValueError"]
             ELSE FilterSince(db, since_dt)
    ELSE [exc |-> "none", items |-> db]

\* line 83
ListLimit(limit) == Min(ArgOr(limit, DefaultLimit), MaxLimit)

\* line 84
ListOffset(offset) == ArgOr(offset, DefaultOffset)

\* faulty variant: the slice ends at limit, not at offset + limit
PaginateToLimit(filtered, limit, offset, clock) ==
    LET total == Len(filtered)
    IN  [contacts |-> PySlice(filtered, offset, limit),
         pagination |-> [total |-> total,
                         limit |-> limit,
                         offset |-> offset,
                         hasMore |-> offset + limit < total],
         timestamp |-> isoformat(clock)]

\* lines 99-113
Paginate(filtered, limit, offset, clock) ==
    LET total == Len(filtered)
    IN  [contacts |-> PySlice(filtered, offset, offset + limit),
         pagination |-> [total |-> total,
                         limit |-> limit,
                         offset |-> offset,
                         hasMore |-> offset + limit < total],
         timestamp |-> isoformat(clock)]

\* lines 80-115: status and body; ValueError is caught (400), TypeError is
\* not and the server answers 500
ListResponse(db, limit, offset, since, clock) ==
    LET f == FilteredContacts(db, since)
    IN  CASE f.exc = "ValueError" ->
               [status |-> 400,
                body |-> [error |-> "Invalid 'since' date format. Use ISO format."]]
          [] f.exc = "TypeError" ->
               [status |-> 500, body |-> [error |-> "Internal Server Error"]]
          [] OTHER ->
               [status |-> 200,
                body |-> Paginate(f.items, ListLimit(limit), ListOffset(offset), clock)]

get_contacts(limit, offset, since) ==
    /\ Idle
    /\ LET r == ListResponse(contacts_db, limit, offset, since, now)
       IN  resp' = [op |-> "list", limit |-> limit, offset |-> offset, since |-> since,
                    status |-> r.status, body |-> r.body]
    /\ UNCHANGED <<contacts_db, contact_counter, rng, now, posts, threads, client>>

---------------------------------------------------------------------------
(* GET /api/contacts/<contact_id> *)

\* faulty variant: the scan stops one contact short of the end of the store
FirstWithIdButLast(db, contact_id) ==
    LET hits == {i \in 1..(Len(db) - 1) : db[i].id = contact_id}
    IN  IF hits = {} THEN 0 ELSE CHOOSE i \in hits : \A j \in hits : i <= j

\* next((c for c in contacts_db if c['id'] == contact_id), None): the position
\* of the first match, 0 for None
FirstWithId(db, contact_id) ==
    LET hits == {i \in 1..Len(db) : db[i].id = contact_id}
    IN  IF hits = {} THEN 0 ELSE CHOOSE i \in hits : \A j \in hits : i <= j

get_contact(contact_id) ==
    /\ Idle
    /\ LET i == FirstWithId(contacts_db, contact_id)
       IN  resp' = IF i = 0
                   THEN [op |-> "get", id |-> contact_id, status |-> 404,
                         body |-> [error |-> "Contact not found"]]
                   ELSE [op |-> "get", id |-> contact_id, status |-> 200,
                         body |-> contacts_db[i]]
    /\ UNCHANGED <<contacts_db, contact_counter, rng, now, posts, threads, client>>

---------------------------------------------------------------------------
(* GET /health and POST /webhook/test *)

health_check ==
    /\ Idle
    /\ resp' = [op |-> "health", status |-> 200,
                body |-> [status |-> "healthy", timestamp |-> isoformat(now)]]
    /\ UNCHANGED <<contacts_db, contact_counter, rng, now, posts, threads, client>>

\* faulty variant: the response carries no payload
webhook_drops_payload(data) ==
    /\ Idle
    /\ resp' = [op |-> "echo", data |-> data, status |-> 200,
                body |-> [received |-> TRUE, timestamp |-> isoformat(now),
                          payload |-> NullBody]]
    /\ UNCHANGED <<contacts_db, contact_counter, rng, now, posts, threads, client>>

\* lines 157-172
webhook_endpoint(data) ==
    /\ Idle
    /\ resp' = [op |-> "echo", data |-> data, status |-> 200,
                body |-> [received |-> TRUE, timestamp |-> isoformat(now),
                          payload |-> data]]
    /\ UNCHANGED <<contacts_db, contact_counter, rng, now, posts, threads, client>>

---------------------------------------------------------------------------
(* Requests *)

Payloads ==
    <<NullBody,
      JsonObject(<<>>),
      JsonObject([firstName |-> "Alice", id |-> "should-be-ignored"]),
      JsonObject([lastModified |-> isoformat(0 - 40), nickname |-> "Al"]),
      JsonObject([lastModified |-> NotADate, tags |-> <<>>])>>

Counts == {<<>>, <<0 - 1>>, <<0>>, <<2>>, <<25>>}

Limits == {<<>>, <<0 - 1>>, <<0>>, <<10>>, <<150>>}

Offsets == {<<>>, <<0 - 5>>, <<45>>}

Sinces == {AbsentArg, EmptyString, NotADate, IsoString("naive", 0),
           IsoString("naive", 1), IsoString("zulu", 0)}

\* every page request without a filter, and every filter on the first pages
ListRequests ==
    (Limits \X Offsets \X {AbsentArg}) \cup ({<<>>} \X {<<>>, <<1>>} \X Sinces)

ContactIds == {"mock_crm_1001", "mock_crm_1051", "nonexistent-id", "should-be-ignored"}

---------------------------------------------------------------------------
(* The server handling one request at a time *)

Next ==
    \/ Tick
    \/ Deliver
    \/ \E i \in 1..Len(Payloads) : create_contact(Payloads[i])
    \/ \E count \in Counts : simulate_new_contacts(count)
    \/ \E q \in ListRequests : get_contacts(q[1], q[2], q[3])
    \/ \E contact_id \in ContactIds : get_contact(contact_id)
    \/ health_check
    \/ \E i \in 1..Len(Payloads) : webhook_endpoint(Payloads[i])

Spec == Init /\ [][Next]_vars

---------------------------------------------------------------------------
(* The threaded server: each request runs in a thread of its own, and the   *)
(* threads interleave between any two accesses to contacts_db and           *)
(* contact_counter.  No lock guards either.                                 *)

Threads == {1, 2}

ThreadPayloads == {NullBody, JsonObject([firstName |-> "Alice", id |-> "should-be-ignored"])}

ThreadCounts == {<<0>>, <<2>>}

\* the listings the threads ask for: the last page of the seeded store, and
\* a since that every stored contact was modified after
ThreadListRequests ==
    {<<(<<10>>), (<<45>>), AbsentArg>>, <<(<<>>), (<<>>), IsoString("naive", 0 - 1)>>}

\* a thread's locals: pc is its position in the handler, tmp the loaded
\* counter, filtered/total/page the locals of get_contacts (alias is TRUE
\* while filtered_contacts is the global list itself), from the length of the
\* store when the listing began
IdleThread ==
    [pc |-> "idle", op |-> "none", data |-> NullBody, count |-> <<>>, n |-> 0,
     tmp |-> 0, contact |-> <<>>, new |-> <<>>, resp |-> NoResponse,
     limit |-> <<>>, offset |-> <<>>, since |-> AbsentArg, alias |-> FALSE,
     filtered |-> [exc |-> "none", items |-> <<>>], total |-> 0, page |-> <<>>,
     from |-> 0]

InitThreads ==
    \E seed \in Seeds :
        LET b == Bootstrap(seed, 0)
        IN  /\ contacts_db = b.db
            /\ contact_counter = b.counter
            /\ rng = b.rng
            /\ now = 0
            /\ posts = 0
            /\ resp = NoResponse
            /\ threads = [t \in Threads |-> IdleThread]
            /\ client = NoClient

\* line 129: a thread takes POST /api/contacts
StartCreate(t, data) ==
    /\ threads[t].pc = "idle"
    /\ posts < MaxPosts
    /\ posts' = posts + 1
    /\ threads' = [threads EXCEPT ![t] =
           [IdleThread EXCEPT !.pc = "read_counter", !.op = "create", !.data = data]]
    /\ UNCHANGED <<contacts_db, contact_counter, rng, now, resp, client>>

\* lines 144-147: a thread takes POST /api/contacts/simulate
StartSimulate(t, count) ==
    /\ threads[t].pc = "idle"
    /\ posts < MaxPosts
    /\ posts' = posts + 1
    /\ threads' = [threads EXCEPT ![t] =
           [IdleThread EXCEPT !.pc = IF SimulateCount(count) = 0 THEN "respond"
                                     ELSE "read_counter",
                              !.op = "simulate", !.count = count,
                              !.n = SimulateCount(count)]]
    /\ UNCHANGED <<contacts_db, contact_counter, rng, now, resp, client>>

\* line 24, contact_counter += 1: the load of the global
ReadCounter(t) ==
    /\ threads[t].pc = "read_counter"
    /\ threads' = [threads EXCEPT ![t].tmp = contact_counter, ![t].pc = "write_counter"]
    /\ UNCHANGED <<contacts_db, contact_counter, rng, now, posts, resp, client>>

\* line 24, contact_counter += 1: the store of the sum
WriteCounter(t) ==
    /\ threads[t].pc = "write_counter"
    /\ contact_counter' = threads[t].tmp + 1
    /\ threads' = [threads EXCEPT ![t].pc = "build"]
    /\ UNCHANGED <<contacts_db, rng, now, posts, resp, client>>

\* lines 26-68: the contact, its id from the global as it is read at line 53
Build(t) ==
    /\ threads[t].pc = "build"
    /\ LET b == BuildContact(contact_counter, rng, now)
       IN  /\ rng' = b.rng
           /\ threads' = [threads EXCEPT ![t].contact = b.contact, ![t].pc = "append"]
    /\ UNCHANGED <<contacts_db, contact_counter, now, posts, resp, client>>

\* lines 133-136 (create: the overlay on the local contact, then the append)
\* and lines 149-150 (simulate: the append, then the next iteration)
AppendContact(t) ==
    /\ threads[t].pc = "append"
    /\ LET th == threads[t]
           contact == IF th.op = "create" THEN Overlay(th.contact, th.data)
                      ELSE th.contact
           new == Append(th.new, contact)
       IN  /\ contacts_db' = Append(contacts_db, contact)
           /\ threads' = [threads EXCEPT ![t].contact = contact, ![t].new = new,
                  ![t].pc = IF th.op = "simulate" /\ Len(new) < th.n
                            THEN "read_counter" ELSE "respond"]
    /\ UNCHANGED <<contact_counter, rng, now, posts, resp, client>>

\* lines 83-97: a thread takes GET /api/contacts.  Without a since,
\* filtered_contacts is bound to the global list itself (line 88) and nothing
\* is read yet; with one, the list comprehension builds a list of its own
StartList(t, limit, offset, since) ==
    /\ threads[t].pc = "idle"
    /\ LET f == FilteredContacts(contacts_db, since)
       IN  threads' = [threads EXCEPT ![t] =
               [IdleThread EXCEPT !.pc = IF f.exc = "none" THEN "list_total"
                                         ELSE "respond",
                                  !.op = "list", !.limit = limit, !.offset = offset,
                                  !.since = since, !.alias = ~TruthyString(since),
                                  !.filtered = IF TruthyString(since) THEN f
                                               ELSE [exc |-> "none", items |-> <<>>],
                                  !.from = Len(contacts_db)]]
    /\ UNCHANGED <<contacts_db, contact_counter, rng, now, posts, resp, client>>

\* what the name filtered_contacts denotes for thread t at this moment
FilteredNow(t) ==
    IF threads[t].alias THEN contacts_db ELSE threads[t].filtered.items

\* line 100: total = len(filtered_contacts)
ListTotal(t) ==
    /\ threads[t].pc = "list_total"
    /\ threads' = [threads EXCEPT ![t].total = Len(FilteredNow(t)),
                                  ![t].pc = "list_slice"]
    /\ UNCHANGED <<contacts_db, contact_counter, rng, now, posts, resp, client>>

\* line 101: contacts = filtered_contacts[offset:offset + limit]
ListSlice(t) ==
    /\ threads[t].pc = "list_slice"
    /\ LET th == threads[t]
           offset == ListOffset(th.offset)
           limit == ListLimit(th.limit)
       IN  threads' = [threads EXCEPT
               ![t].page = PySlice(FilteredNow(t), offset, offset + limit),
               ![t].pc = "respond"]
    /\ UNCHANGED <<contacts_db, contact_counter, rng, now, posts, resp, client>>

\* lines 103-113 of thread t: the body built from the locals total and
\* contacts; from and to are the lengths of the store when the call began
\* and when it answers
ListResponseOf(th, to, clock) ==
    LET offset == ListOffset(th.offset)
        limit == ListLimit(th.limit)
        head == [op |-> "list", limit |-> th.limit, offset |-> th.offset,
                 since |-> th.since, from |-> th.from, to |-> to]
    IN  CASE th.filtered.exc = "ValueError" ->
               head @@ [status |-> 400,
                        body |-> [error |-> "Invalid 'since' date format. Use ISO format."]]
          [] th.filtered.exc = "TypeError" ->
               head @@ [status |-> 500, body |-> [error |-> "Internal Server Error"]]
          [] OTHER ->
               head @@ [status |-> 200,
                        body |-> [contacts |-> th.page,
                                  pagination |-> [total |-> th.total,
                                                  limit |-> limit,
                                                  offset |-> offset,
                                                  hasMore |-> offset + limit < th.total],
                                  timestamp |-> isoformat(clock)]]

\* lines 103-113, 138 and 152-155: the response; the thread is free again
Respond(t) ==
    /\ threads[t].pc = "respond"
    /\ LET th == threads[t]
       IN  threads' = [threads EXCEPT ![t] = [IdleThread EXCEPT !.resp =
               CASE th.op = "create" ->
                      [op |-> "create", data |-> th.data, status |-> 201,
                       body |-> th.contact]
                 [] th.op = "simulate" ->
                      [op |-> "simulate", count |-> th.count, status |-> 200,
                       body |-> [message |-> "Created " \o ToString(Len(th.new))
                                                \o " new contacts",
                                 contacts |-> th.new]]
                 [] OTHER -> ListResponseOf(th, Len(contacts_db), now)]]
    /\ UNCHANGED <<contacts_db, contact_counter, rng, now, posts, resp, client>>

NextThreads ==
    \E t \in Threads :
        \/ \E data \in ThreadPayloads : StartCreate(t, data)
        \/ \E count \in ThreadCounts : StartSimulate(t, count)
        \/ \E q \in ThreadListRequests : StartList(t, q[1], q[2], q[3])
        \/ ListTotal(t)
        \/ ListSlice(t)
        \/ ReadCounter(t)
        \/ WriteCounter(t)
        \/ Build(t)
        \/ AppendContact(t)
        \/ Respond(t)

SpecThreads == InitThreads /\ [][NextThreads]_vars

---------------------------------------------------------------------------
(* A client of GET /api/contacts that pages through the listing: it asks    *)
(* for offsets 0, L, 2L, ... with one limit L and one since, and stops at   *)
(* the first response without hasMore (or at an error response).  While it  *)
(* pages, no create or simulate is served: the store does not change.       *)

PageLimits == {10, 25, 100}

PageSinces == {AbsentArg, IsoString("naive", 0), IsoString("zulu", 0)}

ClientStart(limit, since) ==
    /\ client = NoClient
    /\ Idle
    /\ client' = [state |-> "paging", limit |-> limit, since |-> since,
                  offset |-> 0, requests |-> 0, pages |-> <<>>]
    /\ UNCHANGED <<contacts_db, contact_counter, rng, now, posts, resp, threads>>

\* the client's next request, handled by get_contacts
ClientSend ==
    /\ client.state = "paging"
    /\ get_contacts(<<client.limit>>, <<client.offset>>, client.since)

\* the client reads the response: the page is added to what it has, and
\* pagination.hasMore decides whether it goes on
ClientReceive ==
    /\ client.state = "paging"
    /\ resp.op = "list"
    /\ resp' = NoResponse
    /\ client' = IF resp.status # 200
                 THEN [client EXCEPT !.state = "failed", !.requests = @ + 1]
                 ELSE [client EXCEPT
                          !.state = IF resp.body.pagination.hasMore THEN "paging"
                                    ELSE "done",
                          !.requests = @ + 1,
                          !.offset = @ + client.limit,
                          !.pages = @ \o resp.body.contacts]
    /\ UNCHANGED <<contacts_db, contact_counter, rng, now, posts, threads>>

NextPaging ==
    \/ client = NoClient /\ Tick
    \/ client = NoClient /\ Deliver
    \/ client = NoClient /\ \E i \in DOMAIN Payloads : create_contact(Payloads[i])
    \/ client = NoClient /\ \E count \in Counts : simulate_new_contacts(count)
    \/ \E limit \in PageLimits, since \in PageSinces : ClientStart(limit, since)
    \/ ClientSend
    \/ ClientReceive

SpecPaging == Init /\ [][NextPaging]_vars

---------------------------------------------------------------------------
(* Properties *)

\* the step just taken handled a request of kind op: the server was idle and
\* the response now in flight is a response to op
Handled(op) == resp = NoResponse /\ resp'.op = op

\* C1: in every state reachable by create and simulate requests served one
\* after the other, the ids of the stored contacts are pairwise distinct
IdsDistinct ==
    Cardinality({contacts_db[i].id : i \in 1..Len(contacts_db)}) = Len(contacts_db)

\* a create whose payload names an id, served after a simulate of two or more
IdsDistinctWitness ==
    /\ resp.op = "create"
    /\ "id" \in DOMAIN resp.data.items
    /\ Len(contacts_db) >= SeedContacts + 3

\* C2: with requests served by interleaving threads, no two stored contacts
\* share an id
ThreadsIdsDistinct ==
    \A i, j \in 1..Len(contacts_db) :
        i < j => contacts_db[i].id # contacts_db[j].id

\* C3: create stores and returns the generated contact with the payload laid
\* over it: the id is the generator's, never the payload's; every other field
\* the payload names has the payload's value; the other fields keep the
\* generated values
CreateOverlay ==
    [][Handled("create") =>
        LET g == generate_mock_contact(contact_counter, rng, now).contact
            items == resp'.data.items
            named == DOMAIN items \ {"id"}
            body == resp'.body
        IN  /\ contacts_db' = Append(contacts_db, body)
            /\ resp'.status = 201
            /\ body.id = g.id
            /\ body.id = ContactId(contact_counter')
            /\ "id" \in DOMAIN items => body.id # items.id
            /\ DOMAIN body = DOMAIN g \cup named
            /\ \A k \in named : body[k] = items[k]
            /\ \A k \in DOMAIN g \ named : body[k] = g[k]]_vars

\* the create of {"firstName": "Alice", "id": "should-be-ignored"}
CreateOverlayWitness ==
    /\ resp.op = "create"
    /\ DOMAIN resp.data.items = {"firstName", "id"}
    /\ resp.body.firstName = "Alice"
    /\ resp.body.id = ContactId(contact_counter)
    /\ contacts_db[Len(contacts_db)] = resp.body

\* min(max(count, 0), 20), 5 for a count that is not given
ClampedCount(count) ==
    LET c == IF count = <<>> THEN 5 ELSE count[1]
    IN  IF c < 0 THEN 0 ELSE IF c > 20 THEN 20 ELSE c

\* C4: simulate(count) appends exactly min(max(count, 0), 20) contacts; the
\* store grows by that number and the returned list is the appended contacts
\* in the order of their generation
SimulateAppendsClamped ==
    [][Handled("simulate") =>
        LET n == ClampedCount(resp'.count)
            old == Len(contacts_db)
            new == resp'.body.contacts
        IN  /\ Len(contacts_db') = old + n
            /\ SubSeq(contacts_db', 1, old) = contacts_db
            /\ Len(new) = n
            /\ \A i \in 1..n : /\ new[i] = contacts_db'[old + i]
                               /\ new[i].id = ContactId(contact_counter + i)]_vars

\* simulate(25) on the seeded store: 20 new contacts
SimulateAppendsClampedWitness ==
    /\ resp.op = "simulate"
    /\ resp.count = <<25>>
    /\ Len(resp.body.contacts) = 20
    /\ Len(contacts_db) = SeedContacts + 20

\* lastModified and createdAt of contact c are timestamps, the first not
\* before the second
ModifiedNotBeforeCreated(c) ==
    LET lm == fromisoformat(c.lastModified)
        cr == fromisoformat(c.createdAt)
    IN  /\ lm.exc = "none"
        /\ cr.exc = "none"
        /\ lm.t >= cr.t

\* C5: every stored contact has lastModified >= createdAt
LastModifiedNotBeforeCreatedAt ==
    \A i \in 1..Len(contacts_db) : ModifiedNotBeforeCreated(contacts_db[i])

\* the effective limit and offset of the listing whose response is in flight
RequestedLimit == IF resp.limit = <<>> THEN 20 ELSE resp.limit[1]
RequestedOffset == IF resp.offset = <<>> THEN 0 ELSE resp.offset[1]

\* the instant a since string denotes
SinceInstant(since) == since.t

\* the stored contacts a listing with the given since is to return: all of
\* them without a since, those modified strictly after it otherwise
ModifiedAfterSince(c, since) ==
    /\ c.lastModified.form \in {"naive", "offset"}
    /\ c.lastModified.t > SinceInstant(since)

ExpectedFiltered(db, since) ==
    IF since.form \in {"absent", "empty"} THEN db
    ELSE LET Keep(c) == ModifiedAfterSince(c, since) IN SelectSeq(db, Keep)

\* the elements of seq at the 0-based positions [offset, offset + limit)
ExpectedPage(seq, offset, limit) ==
    LET last == IF offset + limit < Len(seq) THEN offset + limit ELSE Len(seq)
        size == IF last > offset THEN last - offset ELSE 0
    IN  [i \in 1..size |-> seq[offset + i]]

\* C6: a listing with offset >= 0 and limit in [0, 100] that reaches the
\* pagination returns total = the size of the filtered sequence, contacts =
\* its elements at positions [offset, offset + limit) in insertion order, and
\* hasMore = (offset + limit < total); on the 50-record store limit = 10,
\* offset = 0 gives 10 contacts, total 50 and hasMore
PaginationExact ==
    (/\ resp.op = "list"
     /\ resp.status = 200
     /\ RequestedOffset >= 0
     /\ RequestedLimit \in 0..100)
    => LET filtered == ExpectedFiltered(contacts_db, resp.since)
           page == resp.body.pagination
       IN  /\ page.total = Len(filtered)
           /\ resp.body.contacts = ExpectedPage(filtered, RequestedOffset, RequestedLimit)
           /\ RequestedOffset >= page.total => resp.body.contacts = <<>>
           /\ page.hasMore = (RequestedOffset + RequestedLimit < page.total)
           /\ (/\ Len(contacts_db) = 50
               /\ resp.since = AbsentArg
               /\ RequestedLimit = 10
               /\ RequestedOffset = 0)
              => /\ Len(resp.body.contacts) = 10
                 /\ page.total = 50
                 /\ page.hasMore

\* a last page cut short: offset 45, limit 10 on a store of 51 to 54 contacts
PaginationExactWitness ==
    /\ resp.op = "list"
    /\ resp.status = 200
    /\ resp.offset = <<45>>
    /\ resp.limit = <<10>>
    /\ Len(resp.body.contacts) \in 6..9
    /\ ~resp.body.pagination.hasMore

\* C7: the limit a listing slices with and echoes in pagination.limit lies in
\* [0, 100], whatever integer was requested
EchoedLimitInRange ==
    (resp.op = "list" /\ resp.status = 200)
    => resp.body.pagination.limit \in 0..100

\* a since string that datetime.fromisoformat accepts once a trailing Z is
\* rewritten
WellFormed(since) == since.form \in {"naive", "offset", "zulu"}

\* C8: a listing with a parseable since returns exactly the stored contacts
\* whose lastModified is strictly greater than since, in store order; with a
\* since later than every stored lastModified, contacts is empty and total 0
SinceFilterStrict ==
    (resp.op = "list" /\ WellFormed(resp.since))
    => /\ resp.status = 200
       /\ LET filtered == ExpectedFiltered(contacts_db, resp.since)
          IN  /\ resp.body.pagination.total = Len(filtered)
              /\ resp.body.contacts =
                     PySlice(filtered, RequestedOffset, RequestedOffset + RequestedLimit)
              /\ (\A i \in 1..Len(contacts_db) :
                      ~ModifiedAfterSince(contacts_db[i], resp.since))
                 => /\ resp.body.contacts = <<>>
                    /\ resp.body.pagination.total = 0

\* C9 as stated: a listing with a since string that does not parse as a
\* timestamp answers 400 with an error body and nothing else
UnparseableSinceRejected ==
    (resp.op = "list" /\ resp.since.form \in {"garbage", "empty"})
    => /\ resp.status = 400
       /\ DOMAIN resp.body = {"error"}

\* C9: a listing with a non-empty since string that does not parse as a
\* timestamp answers 400 with an error body, without contacts or pagination,
\* and leaves the store and the id counter as they were
NonEmptyUnparseableSinceRejected ==
    [][(Handled("list") /\ resp'.since.form = "garbage") =>
        /\ resp'.status = 400
        /\ DOMAIN resp'.body = {"error"}
        /\ contacts_db' = contacts_db
        /\ contact_counter' = contact_counter]_vars

\* the listing with since = "not-a-date" on a store that has grown
NonEmptyUnparseableSinceRejectedWitness ==
    /\ resp.op = "list"
    /\ resp.since = NotADate
    /\ resp.status = 400
    /\ Len(contacts_db) > SeedContacts

\* C10: a listing with a well-formed since that ends in Z, on a store that is
\* not empty, answers 200
ZuluSinceAccepted ==
    (resp.op = "list" /\ resp.since.form = "zulu" /\ Len(contacts_db) > 0)
    => resp.status = 200

\* C11: a listing served while other threads append computes total, its page
\* and hasMore from one store that existed during the call: for some length
\* n the store had between the start of the listing and its answer, the
\* first n stored contacts S give total = |filter(S)|, contacts =
\* filter(S)[offset, offset + limit) and hasMore = (offset + limit < |filter(S)|)
ListingFromOneSnapshot ==
    \A t \in Threads :
        LET r == threads[t].resp
        IN  (r.op = "list" /\ r.status = 200)
            => \E n \in r.from..r.to :
                   LET filtered == ExpectedFiltered(SubSeq(contacts_db, 1, n), r.since)
                       offset == r.body.pagination.offset
                       limit == r.body.pagination.limit
                   IN  /\ r.body.pagination.total = Len(filtered)
                       /\ r.body.contacts = ExpectedPage(filtered, offset, limit)
                       /\ r.body.pagination.hasMore = (offset + limit < Len(filtered))

\* C12: the store is append-only: every step leaves the stored contacts where
\* they were with the values they had (the store is a prefix of the store
\* after the step); a create appends its contact with the payload already
\* laid over it; list, get-by-id, health and echo change neither the store
\* nor the counter
StoreAppendOnly ==
    [][/\ Len(contacts_db') >= Len(contacts_db)
       /\ SubSeq(contacts_db', 1, Len(contacts_db)) = contacts_db
       /\ Handled("create") =>
              LET stored == contacts_db'[Len(contacts_db')]
                  items == resp'.data.items
              IN  /\ Len(contacts_db') = Len(contacts_db) + 1
                  /\ \A k \in DOMAIN items \ {"id"} :
                         k \in DOMAIN stored /\ stored[k] = items[k]
       /\ (Handled("list") \/ Handled("get") \/ Handled("health") \/ Handled("echo"))
              => UNCHANGED <<contacts_db, contact_counter>>]_vars

\* a create with a key the generator does not produce, stored after an
\* earlier write
StoreAppendOnlyWitness ==
    /\ resp.op = "create"
    /\ Len(contacts_db) >= 52
    /\ "nickname" \in DOMAIN contacts_db[Len(contacts_db)]
    /\ contacts_db[Len(contacts_db)].nickname = "Al"
    /\ contacts_db[1].id = ContactId(1001)

\* C13: get-by-id answers 200 with the stored contact whose id is the
\* requested id when the store has one, and 404 with the error "Contact not
\* found" exactly when no stored contact has that id
GetByIdFindsOrNotFound ==
    resp.op = "get"
    => LET matches == {i \in 1..Len(contacts_db) : contacts_db[i].id = resp.id}
       IN  /\ matches # {} => /\ resp.status = 200
                              /\ resp.body.id = resp.id
                              /\ \E i \in matches : resp.body = contacts_db[i]
           /\ matches = {} => /\ resp.status = 404
                              /\ resp.body = [error |-> "Contact not found"]
           /\ resp.status \in {200, 404}

\* the contact a create appended to the seeded store is found by its id, and
\* it is not the first stored contact
GetByIdFindsOrNotFoundWitness ==
    /\ resp.op = "get"
    /\ resp.id = "mock_crm_1051"
    /\ resp.status = 200
    /\ resp.body = contacts_db[51]
    /\ resp.body # contacts_db[1]

\* C14: after startup, as long as no create or simulate has been served,
\* the store holds exactly 50 contacts and their ids are 50 distinct values
SeededWithFiftyDistinct ==
    posts = 0
    => /\ Len(contacts_db) = 50
       /\ Cardinality({contacts_db[i].id : i \in 1..Len(contacts_db)}) = 50

\* the state startup leaves: no request served yet, the seeding loop has
\* taken the counter from 1000 to 1050
SeededWithFiftyDistinctWitness ==
    /\ posts = 0
    /\ now = 0
    /\ Idle
    /\ contact_counter = 1050
    /\ contacts_db[50].id = "mock_crm_1050"

\* a tags value as the generator is to draw it: 1 to 3 values of the tag
\* vocabulary, no value twice
TagsWellFormed(tags) ==
    /\ Len(tags) \in 1..3
    /\ \A j \in 1..Len(tags) :
           tags[j] \in {"prospect", "client", "lead", "enterprise", "startup", "premium"}
    /\ Cardinality({tags[j] : j \in 1..Len(tags)}) = Len(tags)

\* C15: in every reachable state every stored contact, the contacts created
\* with a payload included, has 1 to 3 pairwise distinct tags, all of them
\* from {prospect, client, lead, enterprise, startup, premium}
StoredTagsWellFormed ==
    \A i \in 1..Len(contacts_db) : TagsWellFormed(contacts_db[i].tags)

\* C16: for every payload, a null or absent body included, the echo answers
\* received = true and payload = the payload it was given, and the step
\* changes neither the store nor the id counter
EchoReturnsPayload ==
    [][Handled("echo") =>
        /\ resp'.status = 200
        /\ resp'.body.received = TRUE
        /\ resp'.body.payload = resp'.data
        /\ UNCHANGED <<contacts_db, contact_counter>>]_vars

\* an object with an id key comes back whole, after the store has grown
EchoReturnsPayloadWitness ==
    /\ resp.op = "echo"
    /\ resp.body.received
    /\ resp.body.payload.kind = "object"
    /\ DOMAIN resp.body.payload.items = {"firstName", "id"}
    /\ resp.body.payload.items.id = "should-be-ignored"
    /\ Len(contacts_db) > 50

\* C17: the contacts a simulate batch created lie at contiguous positions of
\* the store, no other request's contact between two of them, and carry
\* consecutive counter values, whatever runs at the same time
SimulateBatchAtomic ==
    \A t \in Threads :
        LET r == threads[t].resp
        IN  (r.op = "simulate" /\ Len(r.body.contacts) > 0)
            => LET new == r.body.contacts
                   n == Len(new)
               IN  /\ \E p \in 0..(Len(contacts_db) - n) :
                          SubSeq(contacts_db, p + 1, p + n) = new
                   /\ \E c \in CounterStart..contact_counter :
                          \A i \in 1..n : new[i].id = ContactId(c + i)

\* C18: served one request at a time, the id counter is 1000 plus the number
\* of stored contacts and the contact at position i (from 1) has the id
\* "mock_crm_" followed by 1000 + i, so ids grow in insertion order
CounterTracksStore ==
    /\ contact_counter = 1000 + Len(contacts_db)
    /\ \A i \in 1..Len(contacts_db) :
           contacts_db[i].id = "mock_crm_" \o ToString(1000 + i)

\* after a create whose payload names an id and a simulate of two
CounterTracksStoreWitness ==
    /\ Idle
    /\ posts = 2
    /\ Len(contacts_db) = 53
    /\ contact_counter = 1053
    /\ contacts_db[53].id = "mock_crm_1053"
    /\ \E i \in 51..53 : contacts_db[i].firstName = "Alice"

\* C19 as stated: a listing response with offset >= 0 and any limit of
\* [0, 100], limit = 0 included, that reports hasMore carries a non-empty page
HasMoreImpliesPage ==
    (/\ resp.op = "list"
     /\ resp.status = 200
     /\ resp.body.pagination.offset >= 0
     /\ resp.body.pagination.limit \in 0..100
     /\ resp.body.pagination.hasMore)
    => resp.body.contacts # <<>>

\* C19, amended: a listing response with offset >= 0 and a limit of at least
\* 1 that reports hasMore carries a non-empty page, so a client that moves
\* its offset on by the contacts received makes progress; with limit = 0
\* hasMore is reported with an empty page
HasMoreImpliesPageForPositiveLimit ==
    (/\ resp.op = "list"
     /\ resp.status = 200
     /\ resp.body.pagination.offset >= 0
     /\ resp.body.pagination.limit \in 1..100
     /\ resp.body.pagination.hasMore)
    => /\ resp.body.contacts # <<>>
       /\ Len(resp.body.contacts) = resp.body.pagination.limit

\* a full page from offset 45 of a store that goes on past it
HasMoreImpliesPageForPositiveLimitWitness ==
    /\ resp.op = "list"
    /\ resp.status = 200
    /\ resp.body.pagination.offset = 45
    /\ resp.body.pagination.limit = 10
    /\ resp.body.pagination.hasMore
    /\ Len(resp.body.contacts) = 10

\* the number of requests the paging client is to need for a filtered
\* sequence of the given size: max(1, ceil(total / limit))
ExpectedRequests(total, limit) ==
    IF total = 0 THEN 1 ELSE (total + limit - 1) \div limit

\* C20: on a store that does not change, for any since and any limit L of
\* 1..100, the client that asks for offsets 0, L, 2L, ... comes to a stop at
\* a response without hasMore after exactly max(1, ceil(total / L)) requests,
\* and the pages it received, one after the other, are the filtered
\* sequence: every matching contact once, in insertion order
PagingStopsExactly ==
    client.state \in {"done", "failed"}
    => LET filtered == ExpectedFiltered(contacts_db, client.since)
       IN  /\ client.state = "done"
           /\ client.requests = ExpectedRequests(Len(filtered), client.limit)
           /\ client.pages = filtered

\* the same for the listings that are answered: while the client pages it
\* holds the first requests * L contacts of the filtered sequence and has
\* not yet made the expected number of requests; when it stops at a response
\* without hasMore it has made exactly that number and holds the sequence
PagingExactWhenAnswered ==
    LET filtered == ExpectedFiltered(contacts_db, client.since)
    IN  /\ client.state = "paging"
           => /\ client.requests < ExpectedRequests(Len(filtered), client.limit)
                 \/ client.requests = 0
              /\ client.pages = SubSeq(filtered, 1, client.requests * client.limit)
        /\ client.state = "done"
           => /\ client.requests = ExpectedRequests(Len(filtered), client.limit)
              /\ client.pages = filtered

====
